---- MODULE Spec2Model ----
(***************************************************************************)
(* Model of the vault manager of secure-vault (src/src/vault/vault.js),    *)
(* with the crypto engine (src/src/crypto/crypto.js) and the IndexedDB     *)
(* storage manager (storage.js) it is built on.                            *)
(*                                                                         *)
(* Every exported async function is a task that runs from one await to the *)
(* next.  One action of the model performs the operation a task is         *)
(* suspended on (a store read or write, a key derivation, an encryption or *)
(* a decryption) and then the synchronous code that follows it, up to the  *)
(* call the next await suspends on.  Other tasks, lockVault() and the      *)
(* auto-lock timer may run between two actions of a task.                  *)
(***************************************************************************)
EXTENDS Integers, Sequences, FiniteSets, TLC

VARIABLES masterKey,      \* vault.js: let masterKey
          isVaultLocked,  \* vault.js: let isVaultLocked
          vaultTimeout,   \* vault.js: let vaultTimeout (0 is null)
          timers,         \* host timers armed by setTimeout and not yet fired
          settingsStore,  \* IndexedDB store 'settings' (only the salt record)
          vaultStore,     \* IndexedDB store 'vault', by key
          tasks,          \* the calls in flight, one per slot
          faults,         \* storage/crypto failures injected so far
          last,           \* the call that completed last, with its outcome
          hist,           \* the last HistLen completed calls, in short
          calls,          \* calls made so far
          fn,             \* the synchronous library call under way, if any
          worker          \* the background worker: its timer and its messages

vars == <<masterKey, isVaultLocked, vaultTimeout, timers, settingsStore,
          vaultStore, tasks, faults, last, hist, calls, fn, worker>>

progVars == <<masterKey, isVaultLocked, vaultTimeout, timers, settingsStore,
              vaultStore>>

(***************************************************************************)
(* Bounds                                                                  *)
(***************************************************************************)
MaxFaults == 1      \* failures of the store or of the crypto engine in a run
HistLen == 4        \* completed calls remembered
MaxCalls == 3       \* calls of the vault API in a run of one caller
MaxOverlap == 2     \* calls of the vault API in a run of overlapping callers
MaxTrip == 4        \* credential operations in a run of one session
MaxSaltLen == 2     \* bytes of a salt handed to deriveKey directly
MaxIterations == 3  \* iteration counts handed to deriveKey directly, besides the default
MaxPwLen == 2       \* length asked of generatePassword
MaxPinLen == 3      \* length asked of generatePIN, besides 11
MaxDraw == 2        \* the random values drawn for a PIN are 0..MaxDraw

Tasks == {1, 2}
Passwords == {"pw1", "pw2"}
Salts == {1, 2}                \* values getRandomValues returns for a salt
Handles == {1, 2, 3}           \* values setTimeout returns
CredIds == {"c1", "c2"}
AutoLockChoices == {0, 5}

(***************************************************************************)
(* Program constants                                                       *)
(***************************************************************************)
VAULT_METADATA_ID == "vault-metadata"
SALT_SETTING_ID == "vault-salt"
Ids == CredIds \cup {VAULT_METADATA_ID}

(***************************************************************************)
(* Values                                                                  *)
(***************************************************************************)
NoKey == <<>>                    \* null key
NoSalt == 0                      \* no salt record
NoRec == [absent |-> TRUE]       \* store.get() of a missing key: undefined
NoEnv == [none |-> TRUE]
EmptyObj == [f \in {} |-> ""]
NoPre == [none |-> TRUE]

Present(r) == "data" \in DOMAIN r

\* o.f of a JavaScript object, "" standing for undefined
Get(o, f) == IF f \in DOMAIN o THEN o[f] ELSE ""
\* o.url, <<>> standing for undefined or the empty string
GetUrl(o) == IF "url" \in DOMAIN o THEN o.url ELSE <<>>

\* {...a, ...b}
MergeOldWins(a, b) == [f \in DOMAIN a \cup DOMAIN b |-> IF f \in DOMAIN a THEN a[f] ELSE b[f]]
Merge(a, b) == [f \in DOMAIN a \cup DOMAIN b |-> IF f \in DOMAIN b THEN b[f] ELSE a[f]]

JSONstringify(o) == [json |-> o]
JSONparse(s) == s.json

(***************************************************************************)
(* Crypto engine, crypto.js                                                *)
(***************************************************************************)
\* PBKDF2 is a deterministic function of the password and the salt
deriveKey(password, salt) == <<password, salt>>

\* AES-GCM: the envelope {iv, ciphertext} made from data under key; it opens
\* only under that key, whatever the IV drawn for it
encryptData(key, data) == [key |-> key, pt |-> data]

\* TRUE iff subtle.decrypt resolves (FALSE: it rejects, also for a null key)
decryptOkAny(key, env) == key # NoKey
decryptOkNever(key, env) == FALSE
decryptOk(key, env) == key # NoKey /\ env.key = key
decryptData(key, env) == env.pt

\* deriveKey(password, salt, iterations = 100000), crypto.js 4-25, as a caller
\* of the crypto engine sees it: importKey accepts any password bytes, and
\* subtle.deriveKey with PBKDF2 rejects with an OperationError when iterations
\* is zero and accepts every salt, the empty one included (Web Cryptography
\* API, PBKDF2 derive bits).  crypto.js adds no check of its own.
DEFAULT_ITERATIONS == 100000
PBKDF2(password, salt, iterations) ==
  IF iterations = 0
    THEN [error |-> "OperationError"]
    ELSE [key |-> <<password, salt, iterations>>]
deriveKeyWith(password, salt, iterations) == PBKDF2(password, salt, iterations)

SaltBytes == {0, 255}
SaltInputs == UNION {[1..n -> SaltBytes] : n \in 0..MaxSaltLen}
IterationInputs == 0..MaxIterations \cup {DEFAULT_ITERATIONS}

(***************************************************************************)
(* Host: random values and timers                                          *)
(***************************************************************************)
\* a fresh random 16-byte salt: not the stored one
FreshSalts == Salts \ {settingsStore}

PendingHandles == {x.h : x \in timers}
FreshHandle ==
  CHOOSE h \in Handles \ (PendingHandles \cup {vaultTimeout}) :
    \A g \in Handles \ (PendingHandles \cup {vaultTimeout}) : h <= g

\* a clearTimeout that cancels nothing
clearTimeoutNothing(ts, h) == ts
clearTimeout(ts, h) == {x \in ts : x.h # h}

\* setTimeout(callback, mins * 60 * 1000) returning handle h
setTimeoutDropped(ts, h, mins) == ts
setTimeout(ts, h, mins) == ts \cup {[h |-> h, mins |-> mins]}

(***************************************************************************)
(* Storage, part_002: the vault store keyed by id                          *)
(***************************************************************************)
\* removeFromVault(id), 124-144: store.delete(id) succeeds for a missing key
removeFromVaultNothing(store, id) == store
removeFromVault(store, id) == [store EXCEPT ![id] = NoRec]

\* no library call is under way
NoCall == [pc |-> "none"]

(***************************************************************************)
(* The background worker, part_005: its lock timer and the messages on     *)
(* their way to it and to the popup                                        *)
(***************************************************************************)
\* 4-5: let lockTimeoutId = null (0 is null).  before: the timers, of the vault
\* and of the worker, armed before the last activity signal and still pending
WorkerIdle == [lockTimeoutId |-> 0, timers |-> {}, inbox |-> {}, before |-> {}]
DEFAULT_LOCK_MINUTES == 5

\* 90-95 and 129-133: clear the timer that is set
clearLockTimer(w) ==
  IF w.lockTimeoutId # 0
    THEN [w EXCEPT !.timers = clearTimeout(@, w.lockTimeoutId), !.lockTimeoutId = 0]
    ELSE w

\* 86-128: resetLockTimer(minutes); parseInt(minutes) is minutes for the
\* positive whole numbers it is called with
resetLockTimer(w, minutes) ==
  LET cleared == clearLockTimer(w)
      \* setTimeout returns a handle it has not just returned
      free == Handles \ ({x.h : x \in w.timers} \cup {w.lockTimeoutId})
      h == CHOOSE g \in free : \A f \in free : g <= f
      lockMinutes == IF minutes < 1 THEN 1 ELSE minutes
  IN IF minutes <= 0
       THEN cleared
       ELSE [cleared EXCEPT !.timers = setTimeout(@, h, lockMinutes),
                            !.lockTimeoutId = h]

(***************************************************************************)
(* Tasks                                                                   *)
(***************************************************************************)
IdleTask ==
  [op |-> "idle", pc |-> "idle", pw |-> "", newpw |-> "", mins |-> 0,
   id |-> "", arg |-> EmptyObj, url |-> <<>>, salt |-> NoSalt,
   key |-> NoKey, newKey |-> NoKey, env |-> NoEnv, obj |-> EmptyObj,
   items |-> <<>>, creds |-> <<>>, res |-> "", out |-> <<>>,
   rd |-> FALSE, wr |-> FALSE, wasLocked |-> FALSE, pre |-> NoPre]

Free(t) == tasks[t].pc = "idle"

\* a storage or crypto call may fail while the failure budget lasts
FailChoices == IF faults < MaxFaults THEN {FALSE, TRUE} ELSE {FALSE}
Inject(f) == faults' = IF f THEN faults + 1 ELSE faults

\* what the caller saw of a call: its arguments, its outcome and its value
Event(tk, res, out) ==
  [op |-> tk.op, a |-> tk.pw, b |-> tk.newpw, id |-> tk.id, arg |-> tk.arg,
   res |-> res, out |-> out]
HistOff == <<[op |-> "off"]>>
Remember(e) ==
  IF hist = HistOff \/ HistLen = 0 THEN hist
  ELSE IF Len(hist) < HistLen THEN Append(hist, e) ELSE Append(Tail(hist), e)

Snapshot == [salt |-> settingsStore, vault |-> vaultStore]

NewTask(op) ==
  [IdleTask EXCEPT !.op = op, !.wasLocked = isVaultLocked]

\* what is remembered of a finished call: its arguments and its outcome
Done(tk, res, out) ==
  [IdleTask EXCEPT !.op = tk.op, !.pc = "done", !.pw = tk.pw,
                   !.newpw = tk.newpw, !.mins = tk.mins, !.id = tk.id,
                   !.arg = tk.arg, !.url = tk.url, !.res = res, !.out = out,
                   !.rd = tk.rd, !.wr = tk.wr, !.wasLocked = tk.wasLocked,
                   !.pre = tk.pre]

Finish(t, tk, res, out) ==
  /\ tasks' = [tasks EXCEPT ![t] = IdleTask]
  /\ last' = Done(tk, res, out)
  /\ hist' = Remember(Event(tk, res, out))

Goto(t, tk) ==
  /\ tasks' = [tasks EXCEPT ![t] = tk]
  /\ UNCHANGED <<last, hist>>

\* lockVault() and the timer callback are synchronous
Sync(op) ==
  /\ last' = Done(NewTask(op), "", <<>>)
  /\ hist' = Remember(Event(NewTask(op), "", <<>>))

(***************************************************************************)
(* lockVault(), vault.js 146-154                                           *)
(***************************************************************************)
lockVaultKeepTimer(ts) ==
  /\ masterKey' = NoKey
  /\ isVaultLocked' = TRUE
  /\ timers' = ts
  /\ vaultTimeout' = vaultTimeout

\* ts: the timers pending when lockVault is entered
lockVault(ts) ==
  /\ masterKey' = NoKey
  /\ isVaultLocked' = TRUE
  /\ IF vaultTimeout # 0
       THEN /\ timers' = clearTimeout(ts, vaultTimeout)
            /\ vaultTimeout' = 0
       ELSE /\ timers' = ts
            /\ vaultTimeout' = vaultTimeout

LockVault ==
  /\ lockVault(timers)
  /\ Sync("lockVault")
  /\ UNCHANGED <<settingsStore, vaultStore, tasks, faults>>

\* a pending timer fires once and runs its callback, vault.js 126-128
TimerFire ==
  \E x \in timers :
    /\ lockVault(timers \ {x})
    /\ Sync("timer")
    /\ UNCHANGED <<settingsStore, vaultStore, tasks, faults>>

(***************************************************************************)
(* initializeVault(masterPassword), vault.js 27-62                         *)
(***************************************************************************)
InitialMetadata ==
  [id |-> VAULT_METADATA_ID, created |-> "t", lastModified |-> "t", version |-> 1]

\* 30-36: the salt is drawn and saveSettings is called
InitializeVault(t, pw) ==
  /\ Free(t)
  /\ \E salt \in FreshSalts :
       Goto(t, [NewTask("initializeVault") EXCEPT
                  !.pw = pw, !.salt = salt, !.pre = Snapshot,
                  !.pc = "i_saveSettings"])
  /\ UNCHANGED <<progVars, faults>>

\* 33-47: saveSettings completes; the metadata is built; deriveKey is called
I_saveSettings(t) ==
  LET tk == tasks[t] IN
  /\ tk.pc = "i_saveSettings"
  /\ \E f \in FailChoices :
       /\ Inject(f)
       /\ IF f
            THEN /\ Finish(t, tk, "false", <<>>)
                 /\ UNCHANGED progVars
            ELSE /\ settingsStore' = tk.salt
                 /\ Goto(t, [tk EXCEPT !.wr = TRUE, !.pc = "i_derive"])
                 /\ UNCHANGED <<masterKey, isVaultLocked, vaultTimeout, timers, vaultStore>>

\* 47-50: masterKey is assigned; encryptData(masterKey, ...) is called
I_derive(t) ==
  LET tk == tasks[t] IN
  /\ tk.pc = "i_derive"
  /\ masterKey' = deriveKey(tk.pw, tk.salt)
  /\ Goto(t, [tk EXCEPT !.key = deriveKey(tk.pw, tk.salt), !.pc = "i_encrypt"])
  /\ UNCHANGED <<isVaultLocked, vaultTimeout, timers, settingsStore, vaultStore, faults>>

\* 50-54: encryptData completes; saveToVault is called
I_encrypt(t) ==
  LET tk == tasks[t] IN
  /\ tk.pc = "i_encrypt"
  /\ \E f \in FailChoices :
       /\ Inject(f)
       /\ IF f
            THEN Finish(t, tk, "false", <<>>)
            ELSE Goto(t, [tk EXCEPT
                   !.env = encryptData(tk.key, JSONstringify(InitialMetadata)),
                   !.pc = "i_save"])
  /\ UNCHANGED progVars

\* 51-57: saveToVault completes; the vault is unlocked
I_save(t) ==
  LET tk == tasks[t] IN
  /\ tk.pc = "i_save"
  /\ \E f \in FailChoices :
       /\ Inject(f)
       /\ IF f
            THEN /\ Finish(t, tk, "false", <<>>)
                 /\ UNCHANGED progVars
            ELSE /\ vaultStore' = [vaultStore EXCEPT ![VAULT_METADATA_ID] =
                                     [id |-> VAULT_METADATA_ID, data |-> tk.env]]
                 /\ isVaultLocked' = FALSE
                 /\ Finish(t, [tk EXCEPT !.wr = TRUE], "true", <<>>)
                 /\ UNCHANGED <<masterKey, vaultTimeout, timers, settingsStore>>

(***************************************************************************)
(* unlockVault(masterPassword, autoLockTimeout = 5), vault.js 83-140,      *)
(* also as called by changeMasterPassword, vault.js 375                    *)
(***************************************************************************)
UnlockVault(t, pw, mins) ==
  /\ Free(t)
  /\ Goto(t, [NewTask("unlockVault") EXCEPT
                !.pw = pw, !.mins = mins, !.pc = "u_getSettings"])
  /\ UNCHANGED <<progVars, faults>>

\* 86-94: getSettings completes; deriveKey is called
U_getSettings(t) ==
  LET tk == tasks[t] IN
  /\ tk.pc = "u_getSettings"
  /\ \E f \in FailChoices :
       /\ Inject(f)
       /\ IF f \/ settingsStore = NoSalt
            THEN Finish(t, [tk EXCEPT !.rd = TRUE], "false", <<>>)
            ELSE Goto(t, [tk EXCEPT !.rd = TRUE, !.salt = settingsStore,
                                    !.pc = "u_derive"])
  /\ UNCHANGED progVars

\* 94-97: masterKey is assigned; getFromVault is called
U_derive(t) ==
  LET tk == tasks[t] IN
  /\ tk.pc = "u_derive"
  /\ masterKey' = deriveKey(tk.pw, tk.salt)
  /\ Goto(t, [tk EXCEPT !.pc = "u_getMeta"])
  /\ UNCHANGED <<isVaultLocked, vaultTimeout, timers, settingsStore, vaultStore, faults>>

\* 97-107: getFromVault completes; decryptData(masterKey, ...) is called
U_getMeta(t) ==
  LET tk == tasks[t] IN
  /\ tk.pc = "u_getMeta"
  /\ \E f \in FailChoices :
       /\ Inject(f)
       /\ IF f \/ ~Present(vaultStore[VAULT_METADATA_ID])
            THEN Finish(t, [tk EXCEPT !.rd = TRUE], "false", <<>>)
            ELSE Goto(t, [tk EXCEPT !.rd = TRUE, !.key = masterKey,
                                    !.env = vaultStore[VAULT_METADATA_ID].data,
                                    !.pc = "u_decrypt"])
  /\ UNCHANGED progVars

\* 103-113: decryptData completes; lastAccessed is set; encryptData(masterKey, ...) is called
U_decrypt(t) ==
  LET tk == tasks[t] IN
  /\ tk.pc = "u_decrypt"
  /\ IF ~decryptOk(tk.key, tk.env)
       THEN Finish(t, tk, "false", <<>>)
       ELSE Goto(t, [tk EXCEPT
              !.obj = Merge(JSONparse(decryptData(tk.key, tk.env)), [lastAccessed |-> "t"]),
              !.key = masterKey, !.env = NoEnv, !.pc = "u_encrypt"])
  /\ UNCHANGED <<progVars, faults>>

\* 113-117: encryptData completes; saveToVault is called
U_encrypt(t) ==
  LET tk == tasks[t] IN
  /\ tk.pc = "u_encrypt"
  /\ \E f \in FailChoices :
       /\ Inject(f)
       /\ IF f \/ tk.key = NoKey
            THEN Finish(t, tk, "false", <<>>)
            ELSE Goto(t, [tk EXCEPT
                   !.env = encryptData(tk.key, JSONstringify(tk.obj)),
                   !.pc = "u_save"])
  /\ UNCHANGED progVars

\* 380-381 after a successful unlockVault in changeMasterPassword:
\* getAllCredentials is entered, its guard is evaluated, getAllFromVault is called
AfterUnlock(t, tk) ==
  IF tk.op = "unlockVault"
    THEN Finish(t, tk, "true", <<>>)
    ELSE IF masterKey = NoKey
           THEN Finish(t, tk, "false", <<>>)
           ELSE Goto(t, [tk EXCEPT !.env = NoEnv, !.obj = EmptyObj,
                                   !.key = NoKey, !.pc = "g_getAll"])

\* 114-131: saveToVault completes; the vault is unlocked; the timer is armed
U_save(t) ==
  LET tk == tasks[t] IN
  /\ tk.pc = "u_save"
  /\ \E f \in FailChoices :
       /\ Inject(f)
       /\ IF f
            THEN /\ Finish(t, tk, "false", <<>>)
                 /\ UNCHANGED progVars
            ELSE /\ vaultStore' = [vaultStore EXCEPT ![VAULT_METADATA_ID] =
                                     [id |-> VAULT_METADATA_ID, data |-> tk.env]]
                 /\ isVaultLocked' = FALSE
                 /\ IF tk.mins > 0
                      THEN /\ vaultTimeout' = FreshHandle
                           /\ timers' = setTimeout(clearTimeout(timers, vaultTimeout),
                                                    FreshHandle, tk.mins)
                      ELSE UNCHANGED <<vaultTimeout, timers>>
                 /\ AfterUnlock(t, [tk EXCEPT !.wr = TRUE])
                 /\ UNCHANGED <<masterKey, settingsStore>>

(***************************************************************************)
(* Credential operations, vault.js 169-364                                 *)
(***************************************************************************)
Urls == {<<2>>, <<1, 2>>}
CredOrder == <<"c1", "c2">>      \* CredIds in key order

CredInputs ==
  { [url |-> <<1, 2>>, username |-> "u", password |-> "p", name |-> "n", notes |-> "s"],
    [id |-> VAULT_METADATA_ID, url |-> <<1>>, username |-> "u", password |-> "p"] }

Patches ==
  { [password |-> "r", username |-> "v", url |-> <<>>], [id |-> "c2", url |-> <<1>>] }

\* the guard of every credential operation: isVaultLocked || !masterKey
guardKeyOnly == masterKey = NoKey
VaultLockedGuard == isVaultLocked \/ masterKey = NoKey

Thrown(t, tk) == Finish(t, tk, "VaultLocked", <<>>)

\* the record saveToVault is given for a credential, 188-193, 239-244, 392-397
CredRecordPlain(id, cred, env) ==
  [id |-> id, url |-> GetUrl(cred), username |-> Get(cred, "username"),
   password |-> Get(cred, "password"), data |-> env]
CredRecord(id, cred, env) ==
  [id |-> id, url |-> GetUrl(cred), username |-> Get(cred, "username"), data |-> env]

\* cred.url && (cred.url === url || url.includes(cred.url) || cred.url.includes(url))
Includes(s, sub) ==
  \E i \in 0..(Len(s) - Len(sub)) : SubSeq(s, i + 1, i + Len(sub)) = sub
UrlMatchesExact(cred, url) == GetUrl(cred) # <<>> /\ GetUrl(cred) = url
UrlMatches(cred, url) ==
  /\ GetUrl(cred) # <<>>
  /\ \/ GetUrl(cred) = url
     \/ Includes(url, GetUrl(cred))
     \/ Includes(GetUrl(cred), url)

\* store.getAll(): the records in key order
StoreKeyOrder == CredOrder \o <<VAULT_METADATA_ID>>
AllRecords ==
  LET ks == SelectSeq(StoreKeyOrder, LAMBDA k : Present(vaultStore[k]))
  IN [i \in 1..Len(ks) |-> vaultStore[ks[i]]]

\* 296-300: the entries the loop of getAllCredentials decrypts
KeepMetadata(items) == items
SkipMetadata(items) == SelectSeq(items, LAMBDA r : r.id # VAULT_METADATA_ID)

\* 176-178: 'cred-' + Date.now() + '-' + Math.floor(Math.random() * 1000).
\* The store is not consulted: the clock and the random number can repeat, so
\* the id may be one that a stored record already has.
GeneratedIds == CredIds

\* 169-185
AddCredential(t, cred) ==
  /\ Free(t)
  /\ LET tk == [NewTask("addCredential") EXCEPT !.arg = cred] IN
     IF VaultLockedGuard
       THEN Thrown(t, tk)
       ELSE \E id \in (IF "id" \in DOMAIN cred THEN {cred.id} ELSE GeneratedIds) :
              Goto(t, [tk EXCEPT
                 !.obj = Merge(cred, [id |-> id, createdAt |-> "t", updatedAt |-> "t"]),
                 !.key = masterKey, !.pc = "a_encrypt"])
  /\ UNCHANGED <<progVars, faults>>

\* 185-188
A_encrypt(t) ==
  LET tk == tasks[t] IN
  /\ tk.pc = "a_encrypt"
  /\ \E f \in FailChoices :
       /\ Inject(f)
       /\ IF f \/ tk.key = NoKey
            THEN Finish(t, tk, "Error", <<>>)
            ELSE Goto(t, [tk EXCEPT
                   !.env = encryptData(tk.key, JSONstringify(tk.obj)),
                   !.pc = "a_save"])
  /\ UNCHANGED progVars

\* 188-195
A_save(t) ==
  LET tk == tasks[t] IN
  /\ tk.pc = "a_save"
  /\ \E f \in FailChoices :
       /\ Inject(f)
       /\ IF f
            THEN /\ Finish(t, tk, "Error", <<>>)
                 /\ UNCHANGED progVars
            ELSE /\ vaultStore' = [vaultStore EXCEPT ![tk.obj.id] =
                                     CredRecord(tk.obj.id, tk.obj, tk.env)]
                 /\ Finish(t, [tk EXCEPT !.wr = TRUE], "id", <<tk.obj.id>>)
                 /\ UNCHANGED <<masterKey, isVaultLocked, vaultTimeout, timers, settingsStore>>

\* 208-215
UpdateCredential(t, id, patch) ==
  /\ Free(t)
  /\ LET tk == [NewTask("updateCredential") EXCEPT !.id = id, !.arg = patch] IN
     IF VaultLockedGuard
       THEN Thrown(t, tk)
       ELSE Goto(t, [tk EXCEPT !.pc = "up_get"])
  /\ UNCHANGED <<progVars, faults>>

\* 215-225; pre is existingItem, the record the call read
Up_get(t) ==
  LET tk == tasks[t] IN
  /\ tk.pc = "up_get"
  /\ \E f \in FailChoices :
       /\ Inject(f)
       /\ IF f
            THEN Finish(t, [tk EXCEPT !.rd = TRUE], "Error", <<>>)
            ELSE IF ~Present(vaultStore[tk.id])
              THEN Finish(t, [tk EXCEPT !.rd = TRUE], "false", <<>>)
              ELSE Goto(t, [tk EXCEPT !.rd = TRUE, !.key = masterKey,
                                      !.pre = vaultStore[tk.id],
                                      !.env = vaultStore[tk.id].data,
                                      !.pc = "up_decrypt"])
  /\ UNCHANGED progVars

\* 221-236
Up_decrypt(t) ==
  LET tk == tasks[t] IN
  /\ tk.pc = "up_decrypt"
  /\ IF ~decryptOk(tk.key, tk.env)
       THEN Finish(t, tk, "Error", <<>>)
       ELSE Goto(t, [tk EXCEPT
              !.obj = Merge(Merge(JSONparse(decryptData(tk.key, tk.env)), tk.arg),
                            [updatedAt |-> "t"]),
              !.key = masterKey, !.env = NoEnv, !.pc = "up_encrypt"])
  /\ UNCHANGED <<progVars, faults>>

\* 236-239
Up_encrypt(t) ==
  LET tk == tasks[t] IN
  /\ tk.pc = "up_encrypt"
  /\ \E f \in FailChoices :
       /\ Inject(f)
       /\ IF f \/ tk.key = NoKey
            THEN Finish(t, tk, "Error", <<>>)
            ELSE Goto(t, [tk EXCEPT
                   !.env = encryptData(tk.key, JSONstringify(tk.obj)),
                   !.pc = "up_save"])
  /\ UNCHANGED progVars

\* 239-246
Up_save(t) ==
  LET tk == tasks[t] IN
  /\ tk.pc = "up_save"
  /\ \E f \in FailChoices :
       /\ Inject(f)
       /\ IF f
            THEN /\ Finish(t, tk, "Error", <<>>)
                 /\ UNCHANGED progVars
            ELSE /\ vaultStore' = [vaultStore EXCEPT ![tk.id] =
                                     CredRecord(tk.id, tk.obj, tk.env)]
                 /\ Finish(t, [tk EXCEPT !.wr = TRUE], "true", <<>>)
                 /\ UNCHANGED <<masterKey, isVaultLocked, vaultTimeout, timers, settingsStore>>

\* 258-264
GetCredential(t, id) ==
  /\ Free(t)
  /\ LET tk == [NewTask("getCredential") EXCEPT !.id = id] IN
     IF VaultLockedGuard
       THEN Thrown(t, tk)
       ELSE Goto(t, [tk EXCEPT !.pc = "gc_get"])
  /\ UNCHANGED <<progVars, faults>>

\* 264-274
Gc_get(t) ==
  LET tk == tasks[t] IN
  /\ tk.pc = "gc_get"
  /\ \E f \in FailChoices :
       /\ Inject(f)
       /\ IF f
            THEN Finish(t, [tk EXCEPT !.rd = TRUE], "Error", <<>>)
            ELSE IF ~Present(vaultStore[tk.id])
              THEN Finish(t, [tk EXCEPT !.rd = TRUE], "null", <<>>)
              ELSE Goto(t, [tk EXCEPT !.rd = TRUE, !.key = masterKey,
                                      !.env = vaultStore[tk.id].data,
                                      !.pc = "gc_decrypt"])
  /\ UNCHANGED progVars

\* 270-276
Gc_decrypt(t) ==
  LET tk == tasks[t] IN
  /\ tk.pc = "gc_decrypt"
  /\ IF ~decryptOk(tk.key, tk.env)
       THEN Finish(t, tk, "Error", <<>>)
       ELSE Finish(t, tk, "object", <<JSONparse(decryptData(tk.key, tk.env))>>)
  /\ UNCHANGED <<progVars, faults>>

\* 328-334
DeleteCredential(t, id) ==
  /\ Free(t)
  /\ LET tk == [NewTask("deleteCredential") EXCEPT !.id = id] IN
     IF VaultLockedGuard
       THEN Thrown(t, tk)
       ELSE Goto(t, [tk EXCEPT !.pc = "d_remove"])
  /\ UNCHANGED <<progVars, faults>>

\* 334-339
D_remove(t) ==
  LET tk == tasks[t] IN
  /\ tk.pc = "d_remove"
  /\ \E f \in FailChoices :
       /\ Inject(f)
       /\ IF f
            THEN /\ Finish(t, tk, "false", <<>>)
                 /\ UNCHANGED progVars
            ELSE /\ vaultStore' = removeFromVault(vaultStore, tk.id)
                 /\ Finish(t, [tk EXCEPT !.wr = TRUE], "true", <<>>)
                 /\ UNCHANGED <<masterKey, isVaultLocked, vaultTimeout, timers, settingsStore>>

(***************************************************************************)
(* getAllCredentials(), vault.js 287-321, also as called by                *)
(* findCredentialsByUrl (353) and changeMasterPassword (381)               *)
(***************************************************************************)
GetAllCredentials(t) ==
  /\ Free(t)
  /\ LET tk == NewTask("getAllCredentials") IN
     IF VaultLockedGuard
       THEN Thrown(t, tk)
       ELSE Goto(t, [tk EXCEPT !.pc = "g_getAll"])
  /\ UNCHANGED <<progVars, faults>>

\* 347-353: both guards are evaluated before the first await
FindCredentialsByUrl(t, url) ==
  /\ Free(t)
  /\ LET tk == [NewTask("findCredentialsByUrl") EXCEPT !.url = url] IN
     IF VaultLockedGuard
       THEN Thrown(t, tk)
       ELSE Goto(t, [tk EXCEPT !.pc = "g_getAll"])
  /\ UNCHANGED <<progVars, faults>>

\* getAllCredentials returns list to its caller
\*   findCredentialsByUrl 354-359: the filter
\*   changeMasterPassword 384-387: the new salt is drawn, deriveKey is called
GetAllReturns(t, tk, list) ==
  LET tk2 == [tk EXCEPT !.items = <<>>, !.creds = <<>>, !.key = NoKey, !.env = NoEnv] IN
  CASE tk.op = "getAllCredentials" -> Finish(t, tk2, "list", list)
    [] tk.op = "findCredentialsByUrl" ->
         Finish(t, tk2, "list", SelectSeq(list, LAMBDA c : UrlMatches(c, tk.url)))
    [] tk.op = "changeMasterPassword" ->
         \E salt \in FreshSalts :
           Goto(t, [tk2 EXCEPT !.creds = list, !.salt = salt, !.pc = "c_derive"])

\* getAllFromVault rejects: 317-319 rethrow, 360-362 rethrow, 425-427 return false
GetAllThrows(t, tk) ==
  IF tk.op = "changeMasterPassword"
    THEN Finish(t, tk, "false", <<>>)
    ELSE Finish(t, tk, "Error", <<>>)

\* 293-308: getAllFromVault completes; the first entry's decryptData is called
G_getAll(t) ==
  LET tk == tasks[t]
      items == SkipMetadata(AllRecords)
  IN
  /\ tk.pc = "g_getAll"
  /\ \E f \in FailChoices :
       /\ Inject(f)
       /\ IF f
            THEN GetAllThrows(t, [tk EXCEPT !.rd = TRUE])
            ELSE IF items = <<>>
              THEN GetAllReturns(t, [tk EXCEPT !.rd = TRUE], <<>>)
              ELSE Goto(t, [tk EXCEPT !.rd = TRUE, !.items = items, !.creds = <<>>,
                                      !.key = masterKey, !.pc = "g_decrypt"])
  /\ UNCHANGED progVars

\* 302-316: one decryptData completes; the entry is pushed or skipped;
\* the next entry's decryptData is called, or the list is returned
G_decrypt(t) ==
  LET tk == tasks[t]
      item == Head(tk.items)
      list == IF decryptOk(tk.key, item.data)
                THEN Append(tk.creds, JSONparse(decryptData(tk.key, item.data)))
                ELSE tk.creds
  IN
  /\ tk.pc = "g_decrypt"
  /\ IF Tail(tk.items) = <<>>
       THEN GetAllReturns(t, tk, list)
       ELSE Goto(t, [tk EXCEPT !.items = Tail(tk.items), !.creds = list,
                               !.key = masterKey])
  /\ UNCHANGED <<progVars, faults>>

(***************************************************************************)
(* changeMasterPassword(currentPassword, newPassword), vault.js 372-429    *)
(***************************************************************************)
\* 373-375: unlockVault(currentPassword) is called with the default timeout
DEFAULT_AUTO_LOCK == 5

ChangeMasterPassword(t, cur, new) ==
  /\ Free(t)
  /\ Goto(t, [NewTask("changeMasterPassword") EXCEPT
                !.pw = cur, !.newpw = new, !.mins = DEFAULT_AUTO_LOCK,
                !.pre = Snapshot, !.pc = "u_getSettings"])
  /\ UNCHANGED <<progVars, faults>>

\* 400-409 when the loop is over: encryptData(newKey, metadata) is called
NextCredential(tk, rest) ==
  [tk EXCEPT !.creds = rest, !.env = NoEnv,
             !.pc = IF rest = <<>> THEN "c_encMeta" ELSE "c_encrypt"]

\* 387-391: deriveKey completes; the first encryptData(newKey, ...) is called
C_derive(t) ==
  LET tk == tasks[t] IN
  /\ tk.pc = "c_derive"
  /\ Goto(t, NextCredential([tk EXCEPT !.newKey = deriveKey(tk.newpw, tk.salt)], tk.creds))
  /\ UNCHANGED <<progVars, faults>>

\* 391-392
C_encrypt(t) ==
  LET tk == tasks[t] IN
  /\ tk.pc = "c_encrypt"
  /\ \E f \in FailChoices :
       /\ Inject(f)
       /\ IF f
            THEN Finish(t, tk, "false", <<>>)
            ELSE Goto(t, [tk EXCEPT
                   !.env = encryptData(tk.newKey, JSONstringify(Head(tk.creds))),
                   !.pc = "c_save"])
  /\ UNCHANGED progVars

\* 392-398: the record is saved under the id found inside the credential
C_save(t) ==
  LET tk == tasks[t]
      cred == Head(tk.creds)
  IN
  /\ tk.pc = "c_save"
  /\ \E f \in FailChoices :
       /\ Inject(f)
       /\ IF f
            THEN /\ Finish(t, tk, "false", <<>>)
                 /\ UNCHANGED progVars
            ELSE /\ vaultStore' = [vaultStore EXCEPT ![cred.id] =
                                     CredRecord(cred.id, cred, tk.env)]
                 /\ Goto(t, NextCredential([tk EXCEPT !.wr = TRUE], Tail(tk.creds)))
                 /\ UNCHANGED <<masterKey, isVaultLocked, vaultTimeout, timers, settingsStore>>

\* 409-410
C_encMeta(t) ==
  LET tk == tasks[t] IN
  /\ tk.pc = "c_encMeta"
  /\ \E f \in FailChoices :
       /\ Inject(f)
       /\ IF f
            THEN Finish(t, tk, "false", <<>>)
            ELSE Goto(t, [tk EXCEPT
                   !.env = encryptData(tk.newKey, JSONstringify(InitialMetadata)),
                   !.pc = "c_saveMeta"])
  /\ UNCHANGED progVars

\* 410-416
C_saveMeta(t) ==
  LET tk == tasks[t] IN
  /\ tk.pc = "c_saveMeta"
  /\ \E f \in FailChoices :
       /\ Inject(f)
       /\ IF f
            THEN /\ Finish(t, tk, "false", <<>>)
                 /\ UNCHANGED progVars
            ELSE /\ vaultStore' = [vaultStore EXCEPT ![VAULT_METADATA_ID] =
                                     [id |-> VAULT_METADATA_ID, data |-> tk.env]]
                 /\ Goto(t, [tk EXCEPT !.wr = TRUE, !.env = NoEnv, !.pc = "c_saveSalt"])
                 /\ UNCHANGED <<masterKey, isVaultLocked, vaultTimeout, timers, settingsStore>>

\* 416-424
C_saveSalt(t) ==
  LET tk == tasks[t] IN
  /\ tk.pc = "c_saveSalt"
  /\ \E f \in FailChoices :
       /\ Inject(f)
       /\ IF f
            THEN /\ Finish(t, tk, "false", <<>>)
                 /\ UNCHANGED progVars
            ELSE /\ settingsStore' = tk.salt
                 /\ masterKey' = tk.newKey
                 /\ Finish(t, tk, "true", <<>>)
                 /\ UNCHANGED <<isVaultLocked, vaultTimeout, timers, vaultStore>>

(***************************************************************************)
(* Specifications                                                          *)
(***************************************************************************)
Init0 ==
  /\ masterKey = NoKey
  /\ isVaultLocked = TRUE
  /\ vaultTimeout = 0
  /\ timers = {}
  /\ settingsStore = NoSalt
  /\ vaultStore = [i \in Ids |-> NoRec]
  /\ tasks = [t \in Tasks |-> IdleTask]
  /\ last = IdleTask
  /\ calls = 0
  /\ worker = WorkerIdle

LifecycleCall(t) ==
  \/ \E pw \in Passwords : InitializeVault(t, pw)
  \/ \E pw \in Passwords, m \in AutoLockChoices : UnlockVault(t, pw, m)
  \/ \E cur \in Passwords, new \in Passwords : ChangeMasterPassword(t, cur, new)

WriteCall(t) ==
  \/ \E c \in CredInputs : AddCredential(t, c)
  \/ \E id \in Ids, p \in Patches : UpdateCredential(t, id, p)
  \/ \E id \in Ids : DeleteCredential(t, id)

ReadCall(t) ==
  \/ \E id \in Ids : GetCredential(t, id)
  \/ GetAllCredentials(t)
  \/ \E u \in Urls : FindCredentialsByUrl(t, u)

Call(t) == LifecycleCall(t) \/ WriteCall(t) \/ ReadCall(t)

\* the steps of initializeVault, unlockVault and changeMasterPassword
ResumeLifecycle(t) ==
  \/ I_saveSettings(t) \/ I_derive(t) \/ I_encrypt(t) \/ I_save(t)
  \/ U_getSettings(t) \/ U_derive(t) \/ U_getMeta(t) \/ U_decrypt(t)
  \/ U_encrypt(t) \/ U_save(t)
  \/ G_getAll(t) \/ G_decrypt(t)
  \/ C_derive(t) \/ C_encrypt(t) \/ C_save(t) \/ C_encMeta(t)
  \/ C_saveMeta(t) \/ C_saveSalt(t)

ResumeWrite(t) ==
  \/ A_encrypt(t) \/ A_save(t)
  \/ Up_get(t) \/ Up_decrypt(t) \/ Up_encrypt(t) \/ Up_save(t)
  \/ D_remove(t)

ResumeRead(t) ==
  \/ Gc_get(t) \/ Gc_decrypt(t)

Resume(t) == ResumeLifecycle(t) \/ ResumeWrite(t) \/ ResumeRead(t)

MayCall == calls < MaxCalls

\* The vault after initializeVault("pw1") and addCredential of a credential
\* without id, which got the id "c1"
SessionKey == deriveKey("pw1", 1)
StoredCredential ==
  Merge([url |-> <<1, 2>>, username |-> "u", password |-> "p", name |-> "n", notes |-> "s"],
        [id |-> "c1", createdAt |-> "t", updatedAt |-> "t"])
SessionStore ==
  [i \in Ids |->
     CASE i = VAULT_METADATA_ID ->
            [id |-> VAULT_METADATA_ID,
             data |-> encryptData(SessionKey, JSONstringify(InitialMetadata))]
       [] i = "c1" ->
            CredRecord("c1", StoredCredential,
                       encryptData(SessionKey, JSONstringify(StoredCredential)))
       [] OTHER -> NoRec]

InitSession ==
  /\ masterKey = SessionKey
  /\ isVaultLocked = FALSE
  /\ vaultTimeout = 0
  /\ timers = {}
  /\ settingsStore = 1
  /\ vaultStore = SessionStore
  /\ tasks = [t \in Tasks |-> IdleTask]
  /\ last = IdleTask
  /\ calls = 0
  /\ worker = WorkerIdle

\* one caller: a call is made only when the previous one has returned
SeqNext ==
  \/ (MayCall /\ (LifecycleCall(1) \/ WriteCall(1)) /\ calls' = calls + 1 /\ fn' = fn /\ worker' = worker)
  \/ ((ResumeLifecycle(1) \/ ResumeWrite(1)) /\ calls' = calls /\ fn' = fn /\ worker' = worker)
  \/ (MayCall /\ Free(1) /\ LockVault /\ calls' = calls + 1 /\ fn' = fn /\ worker' = worker)
  \/ (Free(1) /\ TimerFire /\ calls' = calls /\ fn' = fn /\ worker' = worker)

\* a new profile, or a profile with a vault and a session open
InitSeq == (Init0 \/ InitSession) /\ faults = 0 /\ hist = <<>> /\ fn = NoCall
SpecSeq == InitSeq /\ [][SeqNext]_vars

\* one caller of the whole vault API
CrudNext ==
  \/ (MayCall /\ Call(1) /\ calls' = calls + 1 /\ fn' = fn /\ worker' = worker)
  \/ (Resume(1) /\ calls' = calls /\ fn' = fn /\ worker' = worker)
  \/ (MayCall /\ Free(1) /\ LockVault /\ calls' = calls + 1 /\ fn' = fn /\ worker' = worker)
  \/ (Free(1) /\ TimerFire /\ calls' = calls /\ fn' = fn /\ worker' = worker)

SpecCrud == InitSeq /\ [][CrudNext]_vars

\* one session of one caller: the vault stays Unlocked, nothing fails, and
\* only credential operations are called
TripNext ==
  \/ (calls < MaxTrip /\ (WriteCall(1) \/ ReadCall(1)) /\ calls' = calls + 1 /\ fn' = fn /\ worker' = worker)
  \/ ((ResumeWrite(1) \/ ResumeRead(1) \/ G_getAll(1) \/ G_decrypt(1)) /\ calls' = calls /\ fn' = fn /\ worker' = worker)

InitTrip == InitSession /\ faults = MaxFaults /\ hist = <<>> /\ fn = NoCall
SpecTrip == InitTrip /\ [][TripNext]_vars

\* deriveKey called on its own: the arguments are drawn, the call completes
DeriveKeyCall ==
  /\ fn.pc = "deriveKey"
  /\ fn' = [fn EXCEPT !.pc = "derived",
                       !.result = deriveKeyWith(fn.password, fn.salt, fn.iterations)]
  /\ UNCHANGED <<progVars, tasks, faults, last, hist, calls, worker>>

InitDerive ==
  /\ Init0 /\ faults = 0 /\ hist = <<>>
  /\ \E pw \in Passwords, salt \in SaltInputs, n \in IterationInputs :
       fn = [pc |-> "deriveKey", password |-> pw, salt |-> salt,
             iterations |-> n, result |-> [none |-> TRUE]]

SpecDerive == InitDerive /\ [][DeriveKeyCall]_vars

\* one caller that only sets up, unlocks, locks and rotates
\* updateCredential calls that overlap, and nothing else
RaceNext ==
  \/ \E t \in Tasks : /\ MayCall
                      /\ \E id \in Ids, p \in Patches : UpdateCredential(t, id, p)
                      /\ calls' = calls + 1 /\ fn' = fn /\ worker' = worker
  \/ \E t \in Tasks : /\ Up_get(t) \/ Up_decrypt(t) \/ Up_encrypt(t) \/ Up_save(t)
                      /\ calls' = calls /\ fn' = fn /\ worker' = worker

SpecRace == InitTrip /\ [][RaceNext]_vars

LifeNext ==
  \/ (MayCall /\ LifecycleCall(1) /\ calls' = calls + 1 /\ fn' = fn /\ worker' = worker)
  \/ (ResumeLifecycle(1) /\ calls' = calls /\ fn' = fn /\ worker' = worker)
  \/ (MayCall /\ Free(1) /\ LockVault /\ calls' = calls + 1 /\ fn' = fn /\ worker' = worker)
  \/ (Free(1) /\ TimerFire /\ calls' = calls /\ fn' = fn /\ worker' = worker)

SpecLife == InitSeq /\ [][LifeNext]_vars

\* The stored metadata envelope is altered behind the vault manager's back
\* (a damaged database, another program writing to the profile): AES-GCM then
\* rejects it under every key.
Tampered(env) == [env EXCEPT !.key = <<"tampered">> \o env.key]
IsTampered(env) == Len(env.key) > 0 /\ env.key[1] = "tampered"
Tamper ==
  /\ Present(vaultStore[VAULT_METADATA_ID])
  /\ ~IsTampered(vaultStore[VAULT_METADATA_ID].data)
  /\ vaultStore' = [vaultStore EXCEPT ![VAULT_METADATA_ID].data = Tampered(@)]
  /\ UNCHANGED <<masterKey, isVaultLocked, vaultTimeout, timers, settingsStore,
                 tasks, faults, last, hist>>

\* one caller of the lifecycle functions, and a store that may be tampered with
TamperNext ==
  \/ LifeNext
  \/ (Free(1) /\ Tamper /\ calls' = calls /\ fn' = fn /\ worker' = worker)

SpecTamper == InitSeq /\ [][TamperNext]_vars

MayOverlap == calls < MaxOverlap

\* calls overlap: each may be made while others are suspended at an await
Next ==
  \/ \E t \in Tasks : MayOverlap /\ Call(t) /\ calls' = calls + 1 /\ fn' = fn /\ worker' = worker
  \/ \E t \in Tasks : Resume(t) /\ calls' = calls /\ fn' = fn /\ worker' = worker
  \/ (MayOverlap /\ LockVault /\ calls' = calls + 1 /\ fn' = fn /\ worker' = worker)
  \/ (TimerFire /\ calls' = calls /\ fn' = fn /\ worker' = worker)

\* overlapping calls are explored with a store and a crypto engine that do not fail
Init == (Init0 \/ InitSession) /\ faults = MaxFaults /\ hist = HistOff /\ fn = NoCall
Spec == Init /\ [][Next]_vars

\* the host runs the callback of a pending timer once its delay has passed
SpecFair == Spec /\ WF_vars(TimerFire /\ calls' = calls /\ fn' = fn /\ worker' = worker)

(***************************************************************************)
(* The popup, the worker and the activity signal of the content script     *)
(* (part_003 160-222, part_005 32-138, part_001 424-457)                   *)
(***************************************************************************)
\* the timers pending in the next state, by owner
PendingAfter(w) ==
  {<<"vault", x.h>> : x \in timers'} \cup {<<"worker", x.h>> : x \in w.timers}
\* a timer that fired or was cancelled is no longer one armed before the signal
Prune(w) == [w EXCEPT !.before = @ \cap PendingAfter(w)]

\* part_003 165-205: the popup calls unlockVault(password); when it returned
\* true the popup reads the user's auto-lock setting (0 when disabled) and
\* sends it to the worker
PopupUnlock ==
  /\ MayCall
  /\ \E pw \in Passwords : UnlockVault(1, pw, DEFAULT_AUTO_LOCK)
  /\ calls' = calls + 1
  /\ worker' = Prune(worker)
PopupUnlockStep ==
  /\ \/ U_getSettings(1) \/ U_derive(1) \/ U_getMeta(1) \/ U_decrypt(1)
     \/ U_encrypt(1) \/ U_save(1)
  /\ calls' = calls
  /\ IF tasks'[1].pc = "idle" /\ last'.res = "true"
       THEN \E m \in AutoLockChoices :
              worker' = Prune([worker EXCEPT !.inbox = @ \cup
                         {[action |-> "unlockVault", lockAfterMinutes |-> m]}])
       ELSE worker' = Prune(worker)

\* part_005 37-44: lockAfterMinutes || DEFAULT_LOCK_MINUTES, then resetLockTimer
WorkerOnUnlock ==
  \E msg \in worker.inbox :
    /\ msg.action = "unlockVault"
    /\ UNCHANGED <<progVars, tasks, faults, last, hist, calls>>
    /\ LET lockMinutes == IF msg.lockAfterMinutes = 0 THEN DEFAULT_LOCK_MINUTES
                                                     ELSE msg.lockAfterMinutes
       IN worker' = Prune(resetLockTimer([worker EXCEPT !.inbox = @ \ {msg}],
                                         lockMinutes))

\* part_001 436-450 and part_005 52-59: an activity signal reaches the worker
\* with the cached auto-lock minutes; the worker resets its timer when one is
\* set.  Every timer pending before the signal and after it is from now on a
\* timer armed before the signal.
ActivitySignal ==
  \E m \in AutoLockChoices \ {0} :
    /\ UNCHANGED <<progVars, tasks, faults, last, hist, calls>>
    /\ LET w == IF worker.lockTimeoutId # 0
                  THEN resetLockTimer(worker, m) ELSE worker
       IN worker' = [w EXCEPT !.before =
                       ({<<"vault", x.h>> : x \in timers}
                          \cup {<<"worker", x.h>> : x \in worker.timers})
                       \cap PendingAfter(w)]

\* part_005 112-121: the worker's timer fires: the popup is told to lock
WorkerTimerFire ==
  \E x \in worker.timers :
    /\ UNCHANGED <<progVars, tasks, faults, last, hist, calls>>
    /\ worker' = Prune([worker EXCEPT !.timers = @ \ {x}, !.lockTimeoutId = 0,
                                      !.inbox = @ \cup {[action |-> "autoLockVault"]}])

\* part_003 95-105: the popup locks the vault when told to
PopupOnAutoLock ==
  \E msg \in worker.inbox :
    /\ msg.action = "autoLockVault"
    /\ LockVault
    /\ calls' = calls
    /\ worker' = Prune([worker EXCEPT !.inbox = @ \ {msg}])

\* part_003 532-535: the lock button
PopupLock ==
  /\ MayCall /\ Free(1)
  /\ LockVault
  /\ calls' = calls + 1
  /\ worker' = Prune(worker)

\* vault.js 126-128: the timer armed by unlockVault fires
VaultTimerFire ==
  /\ TimerFire
  /\ calls' = calls
  /\ worker' = Prune(worker)

ActivityNext ==
  \/ (PopupUnlock /\ fn' = fn)
  \/ (PopupUnlockStep /\ fn' = fn)
  \/ (WorkerOnUnlock /\ fn' = fn)
  \/ (ActivitySignal /\ fn' = fn)
  \/ (WorkerTimerFire /\ fn' = fn)
  \/ (PopupOnAutoLock /\ fn' = fn)
  \/ (PopupLock /\ fn' = fn)
  \/ (VaultTimerFire /\ fn' = fn)

SpecActivity == InitSeq /\ [][ActivityNext]_vars

(***************************************************************************)
(* Password generator, src/src/generator/generator.js.  A string is a      *)
(* sequence of one-character strings.  The generator is synchronous; the   *)
(* model makes one step per iteration of its loops, so that a loop that    *)
(* does not end shows as a run that does not end.                          *)
(***************************************************************************)
Range(s) == {s[k] : k \in DOMAIN s}

\* 156-161: charSets
UPPERCASE ==
  <<"A", "B", "C", "D", "E", "F", "G", "H", "I", "J", "K", "L", "M", "N",
    "O", "P", "Q", "R", "S", "T", "U", "V", "W", "X", "Y", "Z">>
LOWERCASE ==
  <<"a", "b", "c", "d", "e", "f", "g", "h", "i", "j", "k", "l", "m", "n",
    "o", "p", "q", "r", "s", "t", "u", "v", "w", "x", "y", "z">>
NUMBERS ==
  <<"0", "1", "2", "3", "4", "5", "6", "7", "8", "9">>
SYMBOLS ==
  <<"!", "@", "#", "$", "%", "^", "&", "*", "(", ")", "-", "_", "=", "+",
    "[", "]", "{", "}", "|", ";", ":", ",", ".", "<", ">", "?", "/">>
charSets ==
  [uppercase |-> UPPERCASE, lowercase |-> LOWERCASE, numbers |-> NUMBERS,
   symbols |-> SYMBOLS]
\* 164, 167 (the backquote character is written "backtick")
ambiguousChars ==
  <<"1", "l", "I", "0", "O", "{", "}", "[", "]", "(", ")", "/", "'", "\"",
    "backtick", "~", ",", ";", ":", ".", "<", ">">>
similarChars ==
  <<"i", "l", "1", "L", "o", "0", "O">>

\* 323-330: the pools of generateSimplePassword
SIMPLE_UPPERCASE ==
  <<"A", "B", "C", "D", "E", "F", "G", "H", "J", "K", "L", "M", "N", "P",
    "Q", "R", "S", "T", "U", "V", "W", "X", "Y", "Z">>
SIMPLE_LOWERCASE ==
  <<"a", "b", "c", "d", "e", "f", "g", "h", "i", "j", "k", "m", "n", "o",
    "p", "q", "r", "s", "t", "u", "v", "w", "x", "y", "z">>
SIMPLE_NUMBERS ==
  <<"2", "3", "4", "5", "6", "7", "8", "9">>
SIMPLE_SYMBOLS ==
  <<"!", "@", "#", "$", "%", "^", "&", "*", "(", ")", "-", "_", "=", "+">>

\* 129-141: defaults
defaults ==
  [length |-> 16, uppercase |-> TRUE, lowercase |-> TRUE, numbers |-> TRUE,
   symbols |-> TRUE, excludeAmbiguous |-> FALSE, excludeSimilar |-> FALSE,
   required |-> <<>>, excluded |-> <<>>, noConsecutive |-> FALSE,
   noRepeats |-> FALSE]

\* 143-148: { ...defaults, ...options }, lowercase when no class is selected
Config(options) ==
  LET c == Merge(defaults, options) IN
  IF ~c.uppercase /\ ~c.lowercase /\ ~c.numbers /\ ~c.symbols
    THEN [c EXCEPT !.lowercase = TRUE]
    ELSE c

\* charPool.replace(new RegExp(escapeRegExp(char), 'g'), '') for each char of chars
Without(pool, chars) == SelectSeq(pool, LAMBDA c : c \notin Range(chars))

\* 170-201
CharPool(config) ==
  LET classes == (IF config.uppercase THEN charSets.uppercase ELSE <<>>)
                 \o (IF config.lowercase THEN charSets.lowercase ELSE <<>>)
                 \o (IF config.numbers THEN charSets.numbers ELSE <<>>)
                 \o (IF config.symbols THEN charSets.symbols ELSE <<>>)
      p1 == Without(classes, config.excluded)
      p2 == IF config.excludeAmbiguous THEN Without(p1, ambiguousChars) ELSE p1
  IN IF config.excludeSimilar THEN Without(p2, similarChars) ELSE p2

\* 323-330
SimplePool(config) ==
  LET p == (IF config.uppercase THEN SIMPLE_UPPERCASE ELSE <<>>)
           \o (IF config.lowercase THEN SIMPLE_LOWERCASE ELSE <<>>)
           \o (IF config.numbers THEN SIMPLE_NUMBERS ELSE <<>>)
           \o (IF config.symbols THEN SIMPLE_SYMBOLS ELSE <<>>)
  IN IF p = <<>> THEN SIMPLE_LOWERCASE \o SIMPLE_NUMBERS ELSE p

\* 219-230: every character of required occurs in password
HasAllRequired(config, password) ==
  \A k \in DOMAIN config.required : config.required[k] \in Range(password)

\* the class checks without the one for digits
MeetsRequirementsNoDigits(config, password) ==
  LET alnum == Range(UPPERCASE) \cup Range(LOWERCASE) \cup Range(NUMBERS) IN
  /\ config.uppercase => Range(password) \cap Range(UPPERCASE) # {}
  /\ config.lowercase => Range(password) \cap Range(LOWERCASE) # {}
  /\ config.symbols => Range(password) \ alnum # {}

\* 233-250: /[A-Z]/, /[a-z]/, /[0-9]/ and /[^A-Za-z0-9]/ for the selected classes
MeetsRequirements(config, password) ==
  LET alnum == Range(UPPERCASE) \cup Range(LOWERCASE) \cup Range(NUMBERS) IN
  /\ config.uppercase => Range(password) \cap Range(UPPERCASE) # {}
  /\ config.lowercase => Range(password) \cap Range(LOWERCASE) # {}
  /\ config.numbers => Range(password) \cap Range(NUMBERS) # {}
  /\ config.symbols => Range(password) \ alnum # {}

\* 212, 282: the retry budgets
MAX_ATTEMPTS == 100
MAX_CHAR_ATTEMPTS == 10

\* 214-217, 268-276: an attempt starts; generateRandomPassword is entered
StartAttempt(g, attempt) ==
  [g EXCEPT !.attempt = attempt, !.password = <<>>, !.lastChar = "",
            !.usedChars = {}, !.attempts = 0,
            !.pc = IF g.config.length > 0 THEN "draw" ELSE "check"]

\* 128-214: the options are merged, the pool is built, the first attempt starts
GP_start ==
  /\ fn.pc = "generatePassword"
  /\ LET config == Config(fn.options)
         pool == CharPool(config)
     IN fn' = IF pool = <<>>
                THEN [fn EXCEPT !.config = config, !.pc = "thrown"]
                ELSE StartAttempt([fn EXCEPT !.config = config, !.charPool = pool], 1)

\* 283-307: one iteration of the do-while loop of generateRandomPassword.  Every
\* read of randomValues is a value not read before (the buffer is refilled
\* when used up, 285-289), so nextChar is any character of the pool.  attempts
\* is only ever compared with the budget, so it is counted up to the budget.
\* The two continue statements (295-301) jump to the loop condition, which
\* then holds: the budget test at 304 is reached only by a character that
\* meets the constraints.
GP_draw ==
  /\ fn.pc = "draw"
  /\ \E k \in DOMAIN fn.charPool :
       LET nextChar == fn.charPool[k]
           attempts == IF fn.attempts < MAX_CHAR_ATTEMPTS
                         THEN fn.attempts + 1 ELSE fn.attempts
           again == \/ (fn.config.noConsecutive /\ nextChar = fn.lastChar)
                    \/ (fn.config.noRepeats /\ nextChar \in fn.usedChars)
           password == Append(fn.password, nextChar)
       IN fn' = IF again
                  THEN [fn EXCEPT !.attempts = attempts]
                  ELSE [fn EXCEPT !.password = password, !.lastChar = nextChar,
                                  !.usedChars = @ \cup {nextChar}, !.attempts = 0,
                                  !.pc = IF Len(password) < fn.config.length
                                           THEN "draw" ELSE "check"]

\* 216-262: the candidate is checked; it is kept, or the next attempt starts,
\* or the loop ends; after the loop attempt >= maxAttempts sends the call to
\* generateSimplePassword
GP_check ==
  /\ fn.pc = "check"
  /\ LET ok == /\ HasAllRequired(fn.config, fn.password)
               /\ MeetsRequirements(fn.config, fn.password)
     IN fn' = IF ok /\ fn.attempt < MAX_ATTEMPTS
                THEN [fn EXCEPT !.pc = "returned", !.from = "loop", !.result = fn.password]
                ELSE IF ~ok /\ fn.attempt < MAX_ATTEMPTS
                  THEN StartAttempt(fn, fn.attempt + 1)
                  ELSE [fn EXCEPT !.pc = "simple", !.password = <<>>]

\* 323-342: generateSimplePassword, one character per step
GP_simple ==
  /\ fn.pc = "simple"
  /\ IF Len(fn.password) >= fn.config.length
       THEN fn' = [fn EXCEPT !.pc = "returned", !.from = "fallback",
                             !.result = fn.password]
       ELSE \E k \in DOMAIN SimplePool(fn.config) :
              fn' = [fn EXCEPT !.password = Append(@, SimplePool(fn.config)[k])]

GenNext ==
  /\ GP_start \/ GP_draw \/ GP_check \/ GP_simple
  /\ UNCHANGED <<progVars, tasks, faults, last, hist, calls, worker>>

\* The option sets generatePassword is called with.  excluded trims the pool
\* to a few characters, as a caller's exclusion list can.
OnlyLowercase == [uppercase |-> FALSE, lowercase |-> TRUE, numbers |-> FALSE, symbols |-> FALSE]
LettersAndDigits == [uppercase |-> FALSE, lowercase |-> TRUE, numbers |-> TRUE, symbols |-> FALSE]
OnlyDigits == [uppercase |-> FALSE, lowercase |-> FALSE, numbers |-> TRUE, symbols |-> FALSE]
NoClass == [uppercase |-> FALSE, lowercase |-> FALSE, numbers |-> FALSE, symbols |-> FALSE]
Constraints ==
  {[length |-> n, noConsecutive |-> nc, noRepeats |-> nr] :
     n \in 0..MaxPwLen, nc \in BOOLEAN, nr \in BOOLEAN}
GenOptions ==
  {Merge(c, Merge(OnlyLowercase, [excluded |-> Without(LOWERCASE, <<"a">>), required |-> r])) :
     c \in Constraints, r \in {<<>>, <<"a">>}}
  \cup
  {Merge(c, Merge(LettersAndDigits,
                  [excluded |-> Without(LOWERCASE \o NUMBERS, <<"a", "b", "1">>),
                   required |-> r, excludeSimilar |-> x])) :
     c \in Constraints, r \in {<<>>, <<"a">>}, x \in BOOLEAN}
  \cup
  {Merge(c, Merge(OnlyDigits, [excludeAmbiguous |-> TRUE])) : c \in Constraints}
  \cup
  {Merge(c, NoClass) : c \in Constraints}
  \cup
  {Merge(c, Merge(OnlyDigits, [excluded |-> NUMBERS])) : c \in Constraints}

InitGen ==
  /\ Init0 /\ faults = 0 /\ hist = <<>>
  /\ \E o \in GenOptions :
       fn = [pc |-> "generatePassword", options |-> o, config |-> defaults,
             charPool |-> <<>>, attempt |-> 0, password |-> <<>>,
             lastChar |-> "", usedChars |-> {}, attempts |-> 0,
             from |-> "", result |-> <<>>]

SpecGen == InitGen /\ [][GenNext]_vars
\* the generator runs on: a call that can take a step takes one
SpecGenRuns == SpecGen /\ WF_vars(GenNext)

(***************************************************************************)
(* generatePIN (generator.js 532-581)                                      *)
(***************************************************************************)
\* 546
digits == <<"0", "1", "2", "3", "4", "5", "6", "7", "8", "9">>
\* the value of an array or string read outside its bounds
undefined == "undefined"
\* 572: parseInt of a digit character
parseInt(d) == (CHOOSE k \in DOMAIN digits : digits[k] = d) - 1
Abs(n) == IF n < 0 THEN 0 - n ELSE n
\* 533-539
pinDefaults == [length |-> 4, noRepeats |-> FALSE, noConsecutive |-> FALSE]

\* 549-550: length * 2 random values
RandomValues(length) == [1..(length * 2) -> 0..MaxDraw]

\* 561: digits[randomValues[index] % 10]; a read past the end of randomValues
\* is undefined, undefined % 10 is NaN and digits[NaN] is undefined
DigitAt(randomValues, index) ==
  IF index + 1 \in DOMAIN randomValues
    THEN digits[(randomValues[index + 1] % 10) + 1]
    ELSE undefined

\* 572-573: the loop condition.  Math.abs(parseInt(undefined) - n) is NaN,
\* which is not 1; lastDigit || '0' is '0' for '' and for undefined
Rejected(config, nextDigit, lastDigit, usedDigits) ==
  LET lastOrZero == IF lastDigit \in {"", undefined} THEN "0" ELSE lastDigit IN
  \/ /\ config.noConsecutive
     /\ nextDigit # undefined
     /\ Abs(parseInt(nextDigit) - parseInt(lastOrZero)) = 1
  \/ (config.noRepeats /\ nextDigit \in usedDigits)

\* 539-556: the options are merged and checked, the random values are drawn
PIN_start ==
  /\ fn.pc = "generatePIN"
  /\ LET config == Merge(pinDefaults, fn.config) IN
     IF config.noRepeats /\ config.length > 10
       THEN fn' = [fn EXCEPT !.config = config, !.pc = "pinThrown"]
       ELSE \E randomValues \in RandomValues(config.length) :
              fn' = [fn EXCEPT !.config = config, !.randomValues = randomValues,
                               !.pin = <<>>, !.lastDigit = "", !.usedDigits = {},
                               !.i = 0, !.attempts = 0,
                               !.pc = IF config.length > 0 THEN "nextDigit"
                                                            ELSE "pinReturned"]

\* 560-577: one iteration of the do-while loop; after more than ten draws for
\* one position the function calls itself with both constraints off and
\* returns what that call returns (564-571)
PIN_draw ==
  /\ fn.pc = "nextDigit"
  /\ LET nextDigit == DigitAt(fn.randomValues, fn.i * 2 + fn.attempts)
         attempts == fn.attempts + 1
     IN fn' = IF attempts > 10
                THEN [fn EXCEPT !.config = Merge(fn.config, [noRepeats |-> FALSE,
                                                             noConsecutive |-> FALSE]),
                                !.pc = "generatePIN"]
                ELSE IF Rejected(fn.config, nextDigit, fn.lastDigit, fn.usedDigits)
                  THEN [fn EXCEPT !.attempts = attempts]
                  ELSE [fn EXCEPT !.pin = Append(@, nextDigit),
                                  !.lastDigit = nextDigit,
                                  !.usedDigits = @ \cup {nextDigit},
                                  !.i = @ + 1, !.attempts = 0,
                                  !.pc = IF fn.i + 1 < fn.config.length
                                           THEN "nextDigit" ELSE "pinReturned"]

PinNext ==
  (PIN_start \/ PIN_draw) /\ UNCHANGED <<progVars, tasks, faults, last, hist, calls, worker>>

\* the options generatePIN is called with
PinOptions ==
  {[length |-> n, noRepeats |-> nr, noConsecutive |-> nc] :
     n \in 1..MaxPinLen, nr \in BOOLEAN, nc \in BOOLEAN}
  \cup {[length |-> 11, noRepeats |-> TRUE, noConsecutive |-> nc] : nc \in BOOLEAN}
  \cup {[noConsecutive |-> TRUE], [length |-> 1]}

InitPin ==
  /\ Init0 /\ faults = 0 /\ hist = <<>>
  /\ \E o \in PinOptions :
       fn = [pc |-> "generatePIN", options |-> o, config |-> o,
             randomValues |-> <<>>, pin |-> <<>>, lastDigit |-> "",
             usedDigits |-> {}, i |-> 0, attempts |-> 0]

SpecPin == InitPin /\ [][PinNext]_vars

(***************************************************************************)
(* Properties                                                              *)
(***************************************************************************)
Quiet == \A t \in Tasks : Free(t)

Metadata == vaultStore[VAULT_METADATA_ID]

\* isVaultInitialized(), 68-75: !!(await getFromVault(VAULT_METADATA_ID))
isVaultInitialized == Present(Metadata)

\* the envelope of record r is one that key opens
Under(r, key) == Present(r) /\ r.data.key = key

\* the stored salt and metadata do not accept password pw
Rejects(salt, meta, pw) ==
  salt = NoSalt \/ ~Present(meta) \/ meta.data.key # deriveKey(pw, salt)

CrudCall(t) == WriteCall(t) \/ ReadCall(t)

\* the last n remembered calls
Recent(n) == SubSeq(hist, Len(hist) - n + 1, Len(hist))
InitThenUnlock ==
  /\ Len(hist) >= 2
  /\ Recent(2)[1].op = "initializeVault" /\ Recent(2)[1].res = "true"
  /\ Recent(2)[2].op = "unlockVault"
InitLockUnlock ==
  /\ Len(hist) >= 3
  /\ Recent(3)[1].op = "initializeVault" /\ Recent(3)[1].res = "true"
  /\ Recent(3)[2].op = "lockVault"
  /\ Recent(3)[3].op = "unlockVault"

\* C1: a credential operation called while the vault is Locked throws the
\* vault-locked error, has read and written nothing, and leaves both stores
\* as they were.
C1_LockedCallsDoNoIO ==
  [][\A t \in Tasks :
       (isVaultLocked /\ CrudCall(t)) =>
         /\ last'.res = "VaultLocked"
         /\ ~last'.rd /\ ~last'.wr
         /\ Free(t)'
         /\ UNCHANGED <<settingsStore, vaultStore>>]_vars

C1_Witness ==
  /\ last.op = "findCredentialsByUrl"
  /\ last.res = "VaultLocked"
  /\ last.wasLocked
  /\ Present(vaultStore["c1"])

\* C2: unlockVault called while Locked with a password the stored metadata
\* does not accept returns failure, leaves the vault Locked and leaves
\* masterKey null (the store and the crypto engine do not fail).
C2_FailedUnlockRetainsNoKey ==
  (/\ Quiet
   /\ last.op = "unlockVault"
   /\ last.wasLocked
   /\ faults = 0
   /\ Rejects(settingsStore, Metadata, last.pw))
  => (last.res = "false" /\ isVaultLocked /\ masterKey = NoKey)

\* C3: whenever the vault is Locked the in-memory master key is null.  It is
\* stated for the states in which no call is in flight, where it asks least.
C3_KeyOnlyWhileUnlocked ==
  (Quiet /\ isVaultLocked) => masterKey = NoKey

\* C4 as claimed: after a successful initializeVault(correct), unlockVault(wrong)
\* returns failure and isLocked() is true.
C4_LockedAfterWrongPassword ==
  (/\ Quiet
   /\ InitThenUnlock
   /\ Recent(2)[2].a # Recent(2)[1].a)
  => (Recent(2)[2].res = "false" /\ isVaultLocked)

\* C4 as amended: after a successful initializeVault(correct), unlockVault(wrong)
\* returns failure and leaves isLocked() as it was: false when it follows
\* initializeVault directly, true when lockVault() was called in between.
C4_WrongPasswordChangesNoLockState ==
  /\ (/\ Quiet
      /\ InitThenUnlock
      /\ Recent(2)[2].a # Recent(2)[1].a)
     => (Recent(2)[2].res = "false" /\ ~isVaultLocked)
  /\ (/\ Quiet
      /\ InitLockUnlock
      /\ Recent(3)[3].a # Recent(3)[1].a)
     => (Recent(3)[3].res = "false" /\ isVaultLocked)

C4_Witness ==
  /\ Quiet
  /\ InitThenUnlock
  /\ Recent(2)[2].a # Recent(2)[1].a
  /\ Recent(2)[2].res = "false"
  /\ ~isVaultLocked

\* C5: initializeVault(P), lockVault(), unlockVault(P) in a row, with a store
\* and a crypto engine that do not fail: the unlock returns true and the vault
\* is Unlocked.
C5_UnlockAfterInitAndLock ==
  (/\ Quiet
   /\ InitLockUnlock
   /\ Recent(3)[3].a = Recent(3)[1].a
   /\ faults = 0)
  => (Recent(3)[3].res = "true" /\ ~isVaultLocked)

C5_Witness ==
  /\ Quiet
  /\ InitLockUnlock
  /\ Recent(3)[3].a = Recent(3)[1].a
  /\ Recent(3)[3].res = "true"
  /\ ~isVaultLocked
  /\ masterKey = deriveKey(last.pw, settingsStore)

\* C6: lockVault() leaves the key null, the vault Locked and no timer pending,
\* writes to neither store, and changes nothing when the vault is already so.
C6_LockVault ==
  [][LockVault =>
       /\ masterKey' = NoKey
       /\ isVaultLocked'
       /\ timers' = {} /\ vaultTimeout' = 0
       /\ UNCHANGED <<settingsStore, vaultStore>>
       /\ (masterKey = NoKey /\ isVaultLocked /\ timers = {}) => UNCHANGED progVars]_vars

C6_Witness ==
  /\ last.op = "lockVault"
  /\ ~last.wasLocked
  /\ \E t \in Tasks : ~Free(t)
  /\ masterKey = NoKey /\ isVaultLocked /\ timers = {}

\* C7: when a storage write fails during initializeVault on a store without a
\* vault, the call fails and the store does not hold the salt without the
\* metadata.
C7_NoSaltWithoutMetadata ==
  (/\ Quiet
   /\ last.op = "initializeVault"
   /\ last.pre.salt = NoSalt
   /\ faults > 0)
  => /\ last.res = "false"
     /\ ~(settingsStore # NoSalt /\ ~Present(Metadata))

\* C8: after changeMasterPassword(old, new), old # new, has returned true with
\* no failure: the store rejects old, accepts new, and every credential that
\* the old key opened is stored under the same id, with the same content,
\* under the new key.
C8_RotationKeepsCredentials ==
  (/\ Quiet
   /\ last.op = "changeMasterPassword"
   /\ last.res = "true"
   /\ last.pw # last.newpw
   /\ faults = 0)
  => /\ Rejects(settingsStore, Metadata, last.pw)
     /\ ~Rejects(settingsStore, Metadata, last.newpw)
     /\ \A id \in CredIds :
          Under(last.pre.vault[id], deriveKey(last.pw, last.pre.salt)) =>
            /\ Under(vaultStore[id], deriveKey(last.newpw, settingsStore))
            /\ vaultStore[id].data.pt = last.pre.vault[id].data.pt

\* C9: when changeMasterPassword(old, new) fails after old was accepted, the
\* salt, the metadata and every credential the old key opened are still as
\* they were, under the old key.
C9_FailedRotationChangesNothing ==
  (/\ Quiet
   /\ last.op = "changeMasterPassword"
   /\ last.res = "false"
   /\ ~Rejects(last.pre.salt, last.pre.vault[VAULT_METADATA_ID], last.pw))
  => /\ settingsStore = last.pre.salt
     /\ Under(Metadata, deriveKey(last.pw, last.pre.salt))
     /\ \A id \in CredIds :
          Under(last.pre.vault[id], deriveKey(last.pw, last.pre.salt)) =>
            /\ Under(vaultStore[id], deriveKey(last.pw, last.pre.salt))
            /\ vaultStore[id].data.pt = last.pre.vault[id].data.pt

\* C10: changeMasterPassword(current, new) with a current password the stored
\* salt and metadata do not accept returns false and has written nothing:
\* both stores are as they were.
C10_WrongCurrentPasswordWritesNothing ==
  (/\ Quiet
   /\ last.op = "changeMasterPassword"
   /\ Rejects(last.pre.salt, last.pre.vault[VAULT_METADATA_ID], last.pw))
  => /\ last.res = "false"
     /\ ~last.wr
     /\ settingsStore = last.pre.salt
     /\ vaultStore = last.pre.vault

C10_Witness ==
  /\ Quiet
  /\ last.op = "changeMasterPassword"
  /\ last.res = "false"
  /\ last.pre.salt # NoSalt
  /\ Under(last.pre.vault["c1"], deriveKey("pw1", last.pre.salt))
  /\ last.pw = "pw2"
  /\ vaultStore = last.pre.vault

\* the fields a caller gives a credential
CredentialFields == {"username", "password", "name", "notes"}
SameFields(a, b) ==
  /\ GetUrl(a) = GetUrl(b)
  /\ \A f \in CredentialFields : Get(a, f) = Get(b, f)

\* two calls made one after the other
Adjacent(i) == i \in 1..(Len(hist) - 1)

\* C11: while Unlocked and with nothing failing, addCredential(r) returns an
\* id X such that a getCredential(X) that follows returns a record with the
\* url, username, password, name and notes of r; and a getCredential(X) that
\* follows deleteCredential(X) returns null.
C11_CrudRoundTrip ==
  \A i \in 1..HistLen :
    Adjacent(i) =>
      /\ (/\ hist[i].op = "addCredential" /\ hist[i].res = "id"
          /\ hist[i + 1].op = "getCredential" /\ hist[i + 1].id = hist[i].out[1])
         => /\ hist[i + 1].res = "object"
            /\ SameFields(hist[i + 1].out[1], hist[i].arg)
      /\ (/\ hist[i].op = "deleteCredential" /\ hist[i].res = "true"
          /\ hist[i + 1].op = "getCredential" /\ hist[i + 1].id = hist[i].id)
         => hist[i + 1].res = "null"

\* addCredential(r) -> X, getCredential(X), deleteCredential(X), getCredential(X)
C11_Witness ==
  /\ Quiet
  /\ Len(hist) = 4
  /\ hist[1].op = "addCredential" /\ hist[1].res = "id"
  /\ "id" \notin DOMAIN hist[1].arg
  /\ hist[2].op = "getCredential" /\ hist[2].id = hist[1].out[1]
  /\ hist[2].res = "object" /\ Get(hist[2].out[1], "notes") = "s"
  /\ hist[3].op = "deleteCredential" /\ hist[3].id = hist[1].out[1]
  /\ hist[3].res = "true"
  /\ hist[4].op = "getCredential" /\ hist[4].id = hist[1].out[1]
  /\ hist[4].res = "null"

\* the credential entries whose envelope the current key opens, in key order,
\* and what they decrypt to
ReadableIds ==
  SelectSeq(CredOrder, LAMBDA k : /\ Present(vaultStore[k])
                                  /\ decryptOk(masterKey, vaultStore[k].data))
Readable ==
  [i \in 1..Len(ReadableIds) |-> JSONparse(vaultStore[ReadableIds[i]].data.pt)]

\* C12: getAllCredentials() called while Unlocked, when getAllFromVault does
\* not reject, returns a list: the decrypted contents of exactly those entries,
\* other than the metadata entry, that the current key opens.  No entry makes
\* the call fail.
C12_GetAllSkipsUnreadable ==
  [][\A t \in Tasks :
       (/\ G_getAll(t) \/ G_decrypt(t)
        /\ tasks[t].op = "getAllCredentials"
        /\ faults' = faults
        /\ Free(t)')
       => (last'.res = "list" /\ last'.out = Readable)]_vars

\* one entry is returned and another, which the current key does not open, is left out
C12_Witness ==
  /\ Quiet
  /\ last.op = "getAllCredentials" /\ last.res = "list"
  /\ Len(last.out) = 1
  /\ \A k \in CredIds : Present(vaultStore[k])
  /\ \E k \in CredIds : ~decryptOk(masterKey, vaultStore[k].data)

\* the values a caller wants kept secret: credential passwords, names and
\* notes, and the master passwords
SecretValues == {"p", "r", "n", "s"} \cup Passwords

\* a record of the vault store as the code writes it: a credential's
\* {id, url, username, data} or the metadata's {id, data}, data an envelope
Envelope(e) == DOMAIN e = {"key", "pt"}
DurableShape(r) ==
  /\ DOMAIN r \in {{"id", "url", "username", "data"}, {"id", "data"}}
  /\ Envelope(r.data)
  /\ \A f \in DOMAIN r \ {"data", "url"} : r[f] \notin SecretValues

\* C13: every record of the vault store consists of id, url, username and an
\* envelope (the metadata record: id and an envelope); passwords, names, notes
\* and master passwords occur only inside envelopes, and the settings store
\* holds nothing but the salt.
C13_OnlyEnvelopesAreDurable ==
  /\ \A k \in Ids : Present(vaultStore[k]) => DurableShape(vaultStore[k])
  /\ settingsStore \in Salts \cup {NoSalt}

\* a store with records written by addCredential, by updateCredential and by
\* changeMasterPassword
C13_Witness ==
  /\ Quiet
  /\ last.op = "changeMasterPassword" /\ last.res = "true"
  /\ \E k \in CredIds :
       /\ Present(vaultStore[k])
       /\ DOMAIN vaultStore[k] = {"id", "url", "username", "data"}
       /\ Get(JSONparse(vaultStore[k].data.pt), "password") = "r"
       /\ Get(JSONparse(vaultStore[k].data.pt), "notes") = "s"
       /\ vaultStore[k].data.key = deriveKey(last.newpw, settingsStore)

\* the metadata record initializeVault writes: {id, data}, data the envelope
\* of the verification payload
IsVerificationPayload(r) ==
  /\ Present(r)
  /\ DOMAIN r = {"id", "data"}
  /\ "version" \in DOMAIN JSONparse(r.data.pt)

\* C14: a step of addCredential, updateCredential or deleteCredential, whatever
\* id the caller gave, leaves the metadata record in the store: still the
\* verification payload, under the same key, and isVaultInitialized() true.
C14_MetadataSurvivesCredentialOps ==
  [][\A t \in Tasks :
       (ResumeWrite(t) /\ IsVerificationPayload(Metadata))
       => /\ isVaultInitialized'
          /\ IsVerificationPayload(Metadata')
          /\ Metadata'.data.key = Metadata.data.key]_vars

\* a call addCredential(r), r without id, that returned an id
AddedWithoutId(e) ==
  e.op = "addCredential" /\ e.res = "id" /\ "id" \notin DOMAIN e.arg

\* C15: two addCredential calls without an id, one after the other, return
\* different ids.
C15_GeneratedIdsDiffer ==
  \A i \in 1..HistLen :
    (Adjacent(i) /\ AddedWithoutId(hist[i]) /\ AddedWithoutId(hist[i + 1]))
    => hist[i].out[1] # hist[i + 1].out[1]

\* the fields of record new are those of old with the fields of patch laid
\* over them, updatedAt apart
PatchedOver(old, patch, new) ==
  /\ DOMAIN new = DOMAIN old \cup DOMAIN patch \cup {"updatedAt"}
  /\ \A f \in DOMAIN patch : new[f] = patch[f]
  /\ \A f \in DOMAIN old \ (DOMAIN patch \cup {"updatedAt"}) : new[f] = old[f]

\* C16: updateCredential(id, patch) called while Unlocked, with nothing
\* failing: when no record has that id it returns false and writes nothing;
\* when the record is one the current key opens, it returns true and the
\* record stored under id afterwards decrypts to the old record with the
\* fields of patch laid over it, its plaintext url and username being those
\* of the merged record; no other record changes.  Such a call is not ended
\* before its saveToVault.
C16_UpdateMerges ==
  [][\A t \in Tasks :
       LET tk == tasks[t] IN
       /\ (Up_get(t) /\ faults' = faults /\ ~Present(vaultStore[tk.id]))
          => /\ last'.res = "false" /\ ~last'.wr
             /\ UNCHANGED <<settingsStore, vaultStore>>
       /\ (/\ Up_get(t) \/ Up_decrypt(t) \/ Up_encrypt(t)
           /\ faults' = faults
           /\ Present(vaultStore[tk.id])
           /\ decryptOk(masterKey, vaultStore[tk.id].data))
          => ~Free(t)'
       /\ (Up_save(t) /\ faults' = faults)
          => LET old == JSONparse(vaultStore[tk.id].data.pt)
                 new == JSONparse(vaultStore'[tk.id].data.pt)
             IN /\ last'.res = "true"
                /\ decryptOk(masterKey, vaultStore'[tk.id].data)
                /\ PatchedOver(old, tk.arg, new)
                /\ vaultStore'[tk.id].url = GetUrl(new)
                /\ vaultStore'[tk.id].username = Get(new, "username")
                /\ \A k \in Ids \ {tk.id} : vaultStore'[k] = vaultStore[k]]_vars

\* an update that replaced username, password and url and kept the rest
C16_Witness ==
  /\ Quiet
  /\ last.op = "updateCredential" /\ last.res = "true" /\ last.id = "c1"
  /\ vaultStore["c1"].username = "v"
  /\ Get(JSONparse(vaultStore["c1"].data.pt), "password") = "r"
  /\ Get(JSONparse(vaultStore["c1"].data.pt), "notes") = "s"
  /\ Get(JSONparse(vaultStore["c1"].data.pt), "name") = "n"
  /\ vaultStore["c1"].url = <<>>

\* C17: deleteCredential(id) called while Unlocked, removeFromVault not
\* failing: it returns true whether or not a record has that id; afterwards no
\* record has that id and every other record and the salt are as before; when
\* no record had that id the store is left exactly as it was.
C17_DeleteIsIdempotent ==
  [][\A t \in Tasks :
       LET tk == tasks[t] IN
       (D_remove(t) /\ faults' = faults)
       => /\ last'.op = "deleteCredential" /\ last'.res = "true"
          /\ ~Present(vaultStore'[tk.id])
          /\ \A k \in Ids \ {tk.id} : vaultStore'[k] = vaultStore[k]
          /\ settingsStore' = settingsStore
          /\ ~Present(vaultStore[tk.id]) => vaultStore' = vaultStore]_vars

\* deleteCredential("c1") twice in a row on a vault that held "c1"
C17_Witness ==
  /\ Quiet
  /\ Len(hist) = 2
  /\ \A i \in 1..2 :
       hist[i].op = "deleteCredential" /\ hist[i].id = "c1" /\ hist[i].res = "true"
  /\ ~Present(vaultStore["c1"])
  /\ Present(Metadata)

\* sub occurs in s as a run of consecutive elements
IsSubstring(sub, s) ==
  \E i \in 0..Len(s), j \in 0..Len(s) : i <= j /\ SubSeq(s, i + 1, j) = sub

\* the url of credential c is not empty and equals q, occurs in q, or has q
\* occurring in it
UrlRelated(c, q) ==
  /\ "url" \in DOMAIN c /\ c.url # <<>>
  /\ (c.url = q \/ IsSubstring(c.url, q) \/ IsSubstring(q, c.url))

\* C18: findCredentialsByUrl(q) called while Unlocked, getAllFromVault not
\* failing, returns exactly the credentials getAllCredentials() returns whose
\* url is not empty and equals q, is a substring of q or has q as a substring.
C18_FindByUrl ==
  [][\A t \in Tasks :
       LET tk == tasks[t] IN
       (/\ G_getAll(t) \/ G_decrypt(t)
        /\ tk.op = "findCredentialsByUrl"
        /\ faults' = faults
        /\ Free(t)')
       => /\ last'.res = "list"
          /\ last'.out = SelectSeq(Readable, LAMBDA c : UrlRelated(c, tk.url))]_vars

\* of two credentials the query matches one (its url contains the query) and
\* not the other
C18_Witness ==
  /\ Quiet
  /\ last.op = "findCredentialsByUrl" /\ last.res = "list"
  /\ last.url = <<2>>
  /\ Len(Readable) = 2
  /\ Len(last.out) = 1
  /\ last.out[1].url = <<1, 2>>

\* C20: after unlockVault(P, 0) has returned true, whatever happened before,
\* no auto-lock timer is pending.
C20_NoTimerAfterUnlockWithoutAutoLock ==
  (/\ Quiet
   /\ last.op = "unlockVault" /\ last.res = "true" /\ last.mins = 0)
  => timers = {}

\* unlockVault(P, m), m > 0, was the last call to return, and returned true
Armed ==
  last.op = "unlockVault" /\ last.res = "true" /\ last.mins > 0
\* the timer callback has just run
Fired ==
  /\ last.op = "timer"
  /\ isVaultLocked /\ masterKey = NoKey
  /\ timers = {} /\ vaultTimeout = 0
\* lockVault() was called, or a further unlockVault is under way
LockedOrUnlockedAgain ==
  last.op = "lockVault" \/ \E t \in Tasks : tasks[t].op = "unlockVault"

\* C19: after unlockVault(P, m), m > 0, has returned true, unless lockVault
\* or a further unlockVault is called, the auto-lock timer eventually fires,
\* and when it has the vault is Locked, the key is null and no timer is pending.
C19_AutoLockFires == Armed ~> (Fired \/ LockedOrUnlockedAgain)

\* the timer armed by the one call made, an unlockVault("pw1", 5) (a rotation
\* would have replaced the salt), has fired on the Unlocked vault
C19_Witness ==
  /\ Fired
  /\ ~last.wasLocked
  /\ Quiet /\ calls = 1
  /\ settingsStore = 1 /\ Under(Metadata, SessionKey)

\* C21: when unlockVault has decrypted the metadata with the key derived from
\* the password, a failure of the encryptData or saveToVault that records
\* lastAccessed does not undo the unlock: the call returns true, the vault is
\* Unlocked and the derived key is held.
C21_UnlockSurvivesFailedTouch ==
  [][\A t \in Tasks :
       LET tk == tasks[t] IN
       (/\ U_encrypt(t) \/ U_save(t)
        /\ tk.op = "unlockVault"
        /\ faults' > faults)
       => /\ last'.op = "unlockVault" /\ last'.res = "true"
          /\ ~isVaultLocked'
          /\ masterKey' = deriveKey(tk.pw, tk.salt)]_vars

\* C22: deriveKey called with an empty salt or with an iteration count of zero
\* ends in an error and derives no key.
C22_DeriveKeyFailsFast ==
  (/\ fn.pc = "derived"
   /\ (fn.salt = <<>> \/ fn.iterations = 0))
  => ("error" \in DOMAIN fn.result /\ "key" \notin DOMAIN fn.result)

\* C23: unlockVault ends the same way for a wrong password as for the right
\* password over a tampered metadata envelope: in both cases the decryption
\* of the metadata is the step that ends the call, false is returned, and the
\* lock state and the timers are left as they were.
C23_WrongPasswordLikeTampering ==
  [][\A t \in Tasks :
       LET tk == tasks[t] IN
       (/\ U_decrypt(t)
        /\ tk.op = "unlockVault"
        /\ (IsTampered(tk.env) \/ tk.env.key # deriveKey(tk.pw, tk.salt)))
       => /\ Free(t)'
          /\ last'.op = "unlockVault" /\ last'.res = "false" /\ last'.out = <<>>
          /\ UNCHANGED <<isVaultLocked, vaultTimeout, timers>>]_vars

\* the right password was refused over a tampered envelope
C23_Witness ==
  /\ Quiet
  /\ last.op = "unlockVault" /\ last.res = "false"
  /\ settingsStore # NoSalt /\ Present(Metadata)
  /\ Metadata.data.key = <<"tampered">> \o deriveKey(last.pw, settingsStore)

\* C24: every call of generatePassword whose character pool is not empty
\* returns, whatever the random draws are.
C24_GeneratePasswordTerminates ==
  (fn.pc = "draw") ~> (fn.pc = "returned")

\* the password a finished call returned from its retry loop
ReturnedFromLoop == fn.pc = "returned" /\ fn.from = "loop"
SelectedClasses(config) ==
  {c \in {"uppercase", "lowercase", "numbers", "symbols"} : config[c]}

PinChars(pin, k) == IF pin[k] = undefined THEN 9 ELSE 1
PinLength(pin) ==
  Cardinality({<<k, c>> \in (DOMAIN pin) \X (1..9) : c <= PinChars(pin, k)})

\* C26: generatePIN returns a string of exactly length decimal digits, and
\* with noRepeats and a length over ten it fails at once.
C26_PinIsDigitsOfLength ==
  LET config == Merge(pinDefaults, fn.options) IN
  /\ fn.pc = "pinReturned" =>
       /\ PinLength(fn.pin) = config.length
       /\ \A k \in DOMAIN fn.pin : fn.pin[k] \in Range(digits)
  /\ (config.noRepeats /\ config.length > 10) => fn.pc \in {"generatePIN", "pinThrown"}

\* C27: at most one auto-lock timer is pending, it is the one vaultTimeout
\* names, and none is pending while the vault is locked.
C27_OneTimerNoneWhileLocked ==
  /\ Cardinality(timers) <= 1
  /\ \A x \in timers : x.h = vaultTimeout
  /\ isVaultLocked => timers = {}

\* a second unlockVault has armed its timer while the timer of the first was
\* still pending
C27_Witness ==
  /\ last.op = "unlockVault" /\ last.res = "true" /\ last.mins > 0
  /\ ~last.wasLocked
  /\ ~isVaultLocked
  /\ Cardinality(timers) = 1
  /\ vaultTimeout > 1

\* lockVault() or the timer callback is the call that completed last, and no
\* unlockVault or initializeVault is under way: none was invoked since
LockedSince ==
  /\ last.op \in {"lockVault", "timer"}
  /\ \A t \in Tasks : tasks[t].op \notin {"unlockVault", "initializeVault"}

\* C28: once lockVault() has completed, and until unlockVault or
\* initializeVault is invoked, no suspended call writes to the stores or
\* sets the in-memory key.
C28_NothingWrittenAfterLock ==
  [][LockedSince =>
       /\ vaultStore' = vaultStore
       /\ settingsStore' = settingsStore
       /\ masterKey' = NoKey]_vars

\* C29: while the vault is unlocked, a timer armed before an activity signal
\* never fires after it: no auto-lock comes sooner than the full delay after
\* the most recent signal.
C29_NoStaleTimerFires ==
  [][/\ VaultTimerFire =>
          \A x \in timers \ timers' : <<"vault", x.h>> \notin worker.before
     /\ WorkerTimerFire =>
          \A x \in worker.timers \ worker'.timers :
            <<"worker", x.h>> \notin worker.before]_vars

\* C30: when updateCredential calls on one id overlap, the record stored once
\* they have completed is the one written by the call that completed last:
\* that call's patch merged over the record that call read, with the clear
\* fields and the envelope all of that one write.
C30_LastCompletedWriteWins ==
  (/\ Quiet
   /\ last.op = "updateCredential" /\ last.res = "true")
  => LET rec == vaultStore[last.id]
         new == JSONparse(rec.data.pt)
     IN /\ rec.id = last.id
        /\ PatchedOver(JSONparse(last.pre.data.pt), last.arg, new)
        /\ rec.url = GetUrl(new)
        /\ rec.username = Get(new, "username")
        /\ decryptOk(masterKey, rec.data)

\* two updates of "c1" have both returned true; the one that completed first
\* set the username, and the stored record does not have it: the second had
\* read the record before the first wrote
C30_Witness ==
  /\ Quiet
  /\ Len(hist) = 2
  /\ \A i \in 1..2 : /\ hist[i].op = "updateCredential"
                     /\ hist[i].id = "c1" /\ hist[i].res = "true"
  /\ Get(hist[1].arg, "username") = "v"
  /\ "username" \notin DOMAIN hist[2].arg
  /\ vaultStore["c1"].username # "v"
  /\ last.pre = SessionStore["c1"]

\* the candidate of the attempt under way passes the required and class checks
CandidateSatisfies ==
  /\ HasAllRequired(fn.config, fn.password)
  /\ MeetsRequirements(fn.config, fn.password)

\* C31: a candidate that satisfies the class and required checks, on any of
\* the 100 attempts, is the value generatePassword returns; the fallback is
\* used only when no attempt produced one.
C31_SatisfyingCandidateIsReturned ==
  [][(GP_check /\ CandidateSatisfies) =>
       /\ fn'.pc = "returned" /\ fn'.from = "loop"
       /\ fn'.result = fn.password]_vars

\* the characters the options keep out of a password
Forbidden(config) ==
  Range(config.excluded)
    \cup (IF config.excludeAmbiguous THEN Range(ambiguousChars) ELSE {})
    \cup (IF config.excludeSimilar THEN Range(similarChars) ELSE {})

\* C32: no password generatePassword returns, from the retry loop or from the
\* fallback, has a character of excluded, nor of the similar or ambiguous
\* sets when these are to be left out.
C32_NoExcludedCharacter ==
  fn.pc = "returned" =>
    Range(fn.result) \cap Forbidden(Config(fn.options)) = {}

\* C33: in the worker, an unlockVault message with lockAfterMinutes 0 leaves
\* no lock timer pending; with lockAfterMinutes > 0 exactly one timer is
\* pending after the message, any earlier one having been cancelled.
C33_NoWorkerTimerWhenDisabled ==
  [][WorkerOnUnlock =>
       \A msg \in worker.inbox \ worker'.inbox :
         IF msg.lockAfterMinutes = 0
           THEN worker'.timers = {}
           ELSE Cardinality(worker'.timers) = 1]_vars

\* C34: once the vault is initialized the stored salt changes only in the
\* last step of a changeMasterPassword that succeeds; initializeVault on an
\* initialized vault replaces neither the salt nor the metadata.
C34_SaltChangesOnlyByRotation ==
  [][(isVaultInitialized /\ settingsStore # NoSalt) =>
       /\ settingsStore' # settingsStore =>
            \E t \in Tasks : C_saveSalt(t) /\ last'.res = "true"
       /\ (\E t \in Tasks : tasks[t].op = "initializeVault" /\ ~Free(t)) =>
            Metadata' = Metadata]_vars

\* C35: whenever the vault is unlocked and no call is in flight, the key in
\* memory is the key that opens the stored metadata envelope.
C35_KeyOpensMetadata ==
  (~isVaultLocked /\ Quiet /\ isVaultInitialized) => Under(Metadata, masterKey)

\* C36: whenever no call is in flight, every credential envelope in the
\* store opens under the key that opens the metadata envelope.
C36_SingleKeyStore ==
  (Quiet /\ isVaultInitialized) =>
    \A id \in CredIds :
      Present(vaultStore[id]) => Under(vaultStore[id], Metadata.data.key)

\* an unlockVault or initializeVault in flight that was called while the vault
\* was unlocked, lockVault() or the timer being the call that completed last:
\* the call was made before that lock
StartedBeforeLock(t) ==
  /\ last.op \in {"lockVault", "timer"}
  /\ tasks[t].op \in {"unlockVault", "initializeVault"}
  /\ ~Free(t)
  /\ ~tasks[t].wasLocked

\* C37: when lockVault() completes while an unlockVault or initializeVault
\* started earlier is suspended, and no call is made afterwards, the vault is
\* locked with no key in memory and no timer pending once that call finishes.
C37_LockNotUndone ==
  [][\A t \in Tasks :
       (/\ StartedBeforeLock(t)
        /\ \A u \in Tasks \ {t} : Free(u)
        /\ tasks'[t].pc = "idle")
       => /\ isVaultLocked' /\ masterKey' = NoKey /\ timers' = {}]_vars

\* C38: for every credential record in the store, the id inside its
\* envelope is the store key the record is saved under.
C38_InnerIdIsStoreKey ==
  \A id \in CredIds :
    Present(vaultStore[id]) =>
      Get(JSONparse(vaultStore[id].data.pt), "id") = id

\* C39: a changeMasterPassword called on a locked vault, which has no timer
\* pending, leaves the vault locked and without a timer when it returns.
C39_RotationKeepsLockState ==
  [][\A t \in Tasks :
       (/\ tasks[t].op = "changeMasterPassword" /\ ~Free(t)
        /\ tasks[t].wasLocked
        /\ tasks'[t].pc = "idle")
       => /\ isVaultLocked'
          /\ timers' = {}]_vars

====
